---------------------------- MODULE Spec2Model ----------------------------
(***************************************************************************)
(* Boxing Class Tracker: the account service of server.js (POST /api/login *)
(* and POST /api/register over the "users" collection) and the AngularJS   *)
(* client of client/js/app.js (current user, routing, profile view).       *)
(*                                                                         *)
(* A JavaScript string is a sequence of one-character strings, so that the *)
(* regular expressions of the register handler are computed character by   *)
(* character.  The value undefined (a field missing from the JSON body) is *)
(* the value Undefined, which is no sequence of single characters.         *)
(***************************************************************************)
EXTENDS Integers, Sequences, FiniteSets, TLC

\* Number of request slots of the server: each slot carries one request.
MaxReqs == 3

Reqs == 1 .. MaxReqs

----------------------------------------------------------------------------
(* Strings and the regular expressions of the register handler *)

Undefined == <<"undefined">>

Letter ==
    {"a","b","c","d","e","f","g","h","i","j","k","l","m",
     "n","o","p","q","r","s","t","u","v","w","x","y","z",
     "A","B","C","D","E","F","G","H","I","J","K","L","M",
     "N","O","P","Q","R","S","T","U","V","W","X","Y","Z"}

Digit == {"0","1","2","3","4","5","6","7","8","9"}

\* \w of a JavaScript regular expression (no unicode flag)
WordChar == Letter \cup Digit \cup {"_"}

\* !v for a value that is undefined or a string
Falsy(v) == v = Undefined \/ v = <<>>

\* /^[a-zA-Z]+$/
fnameRegex(s) ==
    /\ Len(s) >= 1
    /\ \A i \in 1 .. Len(s) : s[i] \in Letter

\* /^[a-zA-Z]+(['-][a-zA-Z]+)*$/ : runs of letters, one ' or - between two
\* runs, a letter first and last
lnameRegex(s) ==
    /\ Len(s) >= 1
    /\ \A i \in 1 .. Len(s) : s[i] \in Letter \cup {"'", "-"}
    /\ s[1] \in Letter
    /\ s[Len(s)] \in Letter
    /\ \A i \in 1 .. Len(s) - 1 : s[i] \in Letter \/ s[i + 1] \in Letter

\* /^[\w-\.]+@([\w-]+\.)[\w]{2,6}$/ : a is the place of the @, d the place
\* of the dot that ends the one domain label
emailRegex(s) ==
    \E a \in 2 .. Len(s) :
        /\ s[a] = "@"
        /\ \A i \in 1 .. a - 1 : s[i] \in WordChar \cup {"-", "."}
        /\ \E d \in a + 2 .. Len(s) :
              /\ s[d] = "."
              /\ \A i \in a + 1 .. d - 1 : s[i] \in WordChar \cup {"-"}
              /\ Len(s) - d >= 2
              /\ Len(s) - d <= 6
              /\ \A i \in d + 1 .. Len(s) : s[i] \in WordChar

\* /^[0-9]{10}$/
phoneNumberRegex(s) ==
    /\ Len(s) = 10
    /\ \A i \in 1 .. Len(s) : s[i] \in Digit

----------------------------------------------------------------------------
(* Responses *)

Message(code, text) == [status |-> code, body |-> [message |-> text]]

Json(code, doc) == [status |-> code, body |-> doc]

NoResponse == Message(0, "")

\* The validation of the register handler: the 400 response of the first
\* check that fails, NoResponse when every check passes.
ValidateUsernameFirst(b) ==
    IF Falsy(b.firstName) THEN Message(400, "First name is required")
    ELSE IF ~fnameRegex(b.firstName)
        THEN Message(400, "First Name should contain only letters")
    ELSE IF Falsy(b.username) \/ Falsy(b.password)
        THEN Message(400, "Username and password are required")
    ELSE IF Falsy(b.lastName) THEN Message(400, "Last Name is required")
    ELSE IF ~lnameRegex(b.lastName)
        THEN Message(400, "Last Name should contain only letters")
    ELSE IF Falsy(b.email) THEN Message(400, "Email is required")
    ELSE IF ~emailRegex(b.email) THEN Message(400, "Email format is invalid")
    ELSE IF Falsy(b.phone) THEN Message(400, "Phone Number is required")
    ELSE IF ~phoneNumberRegex(b.phone)
        THEN Message(400, "Phone Number must be 10 digits")
    ELSE NoResponse

Validate(b) ==
    IF Falsy(b.firstName) THEN Message(400, "First name is required")
    ELSE IF ~fnameRegex(b.firstName)
        THEN Message(400, "First Name should contain only letters")
    ELSE IF Falsy(b.lastName) THEN Message(400, "Last Name is required")
    ELSE IF ~lnameRegex(b.lastName)
        THEN Message(400, "Last Name should contain only letters")
    ELSE IF Falsy(b.email) THEN Message(400, "Email is required")
    ELSE IF ~emailRegex(b.email) THEN Message(400, "Email format is invalid")
    ELSE IF Falsy(b.phone) THEN Message(400, "Phone Number is required")
    ELSE IF ~phoneNumberRegex(b.phone)
        THEN Message(400, "Phone Number must be 10 digits")
    ELSE IF Falsy(b.username) \/ Falsy(b.password)
        THEN Message(400, "Username and password are required")
    ELSE NoResponse

\* new User({...}): the document built from the six fields of the request
NewUserNoPassword(b) ==
    [firstName |-> b.firstName, lastName |-> b.lastName,
     username |-> b.username, password |-> <<>>,
     email |-> b.email, phone |-> b.phone]

NewUser(b) ==
    [firstName |-> b.firstName, lastName |-> b.lastName,
     username |-> b.username, password |-> b.password,
     email |-> b.email, phone |-> b.phone]

\* user.password === password
ToLower(c) ==
    CASE c = "P" -> "p"
      [] c = "W" -> "w"
      [] OTHER -> c

PasswordMatchesIgnoreCase(stored, supplied) ==
    /\ Len(stored) = Len(supplied)
    /\ \A i \in 1 .. Len(stored) : ToLower(stored[i]) = ToLower(supplied[i])

PasswordMatches(stored, supplied) == stored = supplied

\* null
Null == [null |-> TRUE]

\* The places in the collection of the documents with that username: the
\* collection has no unique index.
Matching(st, username) == {i \in 1 .. Len(st) : st[i].username = username}

\* User.findOne({ username: username }): the first document with that
\* username in the natural order of the collection, which is the order of
\* insertion as no document is ever deleted or updated; null when none.
findOneByEmail(st, username) ==
    LET m == {i \in 1 .. Len(st) : st[i].email = username}
    IN  IF m = {} THEN Null
        ELSE st[CHOOSE i \in m : \A j \in m : i <= j]

findOne(st, username) ==
    LET m == Matching(st, username)
    IN  IF m = {} THEN Null
        ELSE st[CHOOSE i \in m : \A j \in m : i <= j]

\* newUser.save(): the document is added to the collection
InsertReplacing(st, doc) ==
    IF Matching(st, doc.username) = {}
    THEN Append(st, doc)
    ELSE [i \in 1 .. Len(st) |->
            IF st[i].username = doc.username THEN doc ELSE st[i]]

Insert(st, doc) == Append(st, doc)

\* catch (err) of the login handler and of the register handler
LoginCatch == Message(500, "Server error")

RegisterCatchServerError == Message(500, "Server error")

RegisterCatch == Message(500, "Error saving user to database")

----------------------------------------------------------------------------
(* The requests the server is sent *)

Jane == <<"J","a","n","e">>
Doe == <<"D","o","e">>
JaneMail == <<"j","@","d","o","e",".","c","o","m">>
JanePhone == <<"5","5","5","1","2","3","4","5","6","7">>
jdoe == <<"j","d","o","e">>
al == <<"a","l">>
pw1 == <<"p","w">>
PW1 == <<"P","W">>

ValidBody(username, password) ==
    [firstName |-> Jane, lastName |-> Doe, username |-> username,
     password |-> password, email |-> JaneMail, phone |-> JanePhone]

\* Register bodies of the concurrent specification: valid ones, two of them
\* with one username and passwords that differ in case only, and one that
\* fails a check.
RegisterBodies ==
    {ValidBody(al, pw1), ValidBody(al, PW1), ValidBody(jdoe, pw1),
     [ValidBody(al, pw1) EXCEPT !.firstName = <<"J","4">>]}

LoginBodies ==
    {[username |-> al, password |-> pw1],
     [username |-> al, password |-> PW1],
     [username |-> Undefined, password |-> pw1],
     [username |-> al, password |-> <<>>]}

\* Register bodies of the specification of one request: every combination
\* of these values of the six fields.
AllRegisterBodies ==
    [firstName : {Undefined, <<>>, Jane, <<"J","4">>, <<"J"," ","o">>},
     lastName : {Undefined, Doe, <<"O","'","B","-","S">>, <<"D","2">>,
                 <<"O","'">>, <<"O","'","-","B">>},
     email : {Undefined, JaneMail, <<"a","@","b",".","c","o">>,
              <<"a","@","b">>, <<"a","@","b",".","c",".","c","o">>,
              <<"@","b",".","c","o">>, <<"a","@","b",".","c">>},
     phone : {Undefined, JanePhone, <<"1","2","3","4","5">>,
              <<"5","5","5","1","2","3","4","5","6","x">>},
     username : {Undefined, <<>>, jdoe, al},
     password : {Undefined, pw1}]

----------------------------------------------------------------------------
(* The server *)

VARIABLES
    store,      \* the users collection, in the order of insertion
    storeDown,  \* whether a store operation fails (throws) now
    pc,         \* per request: "idle", "findOne", "save", "done"
    kind,       \* per request: "none", "login", "register"
    req,        \* per request: the body
    resp,       \* per request: the response, NoResponse before it is sent
    after       \* per request: the requests answered before it arrived

VARIABLES
    currentUser,   \* $rootScope.currentUser
    path,          \* $location.path()
    view,          \* the route whose template and controller ng-view shows
    profile,       \* $scope.profile of the ProfileController in the view
    logoutFlag,    \* $rootScope.logoutFlag
    errorMessage,  \* $scope.errorMessage of the AuthController in the view
    inflight,      \* the $http.post requests not answered yet
    loggedOut      \* logout ran and no request sent after it succeeded yet

svars == <<store, storeDown, pc, kind, req, resp, after>>

cvars == <<currentUser, path, view, profile, logoutFlag, errorMessage,
           inflight, loggedOut>>

vars == <<svars, cvars>>

NoBody == [username |-> Undefined, password |-> Undefined]

InitServer ==
    /\ store = <<>>
    /\ storeDown = FALSE
    /\ pc = [q \in Reqs |-> "idle"]
    /\ kind = [q \in Reqs |-> "none"]
    /\ req = [q \in Reqs |-> NoBody]
    /\ resp = [q \in Reqs |-> NoResponse]
    /\ after = [q \in Reqs |-> {}]

Answered == {p \in Reqs : pc[p] = "done"}

\* Request q arrives (the slots are taken in order) and its handler runs up
\* to its first await: r is the response of a failed check, or NoResponse.
Receive(q, k, b, r) ==
    /\ \A p \in Reqs : p < q => pc[p] # "idle"
    /\ kind' = [kind EXCEPT ![q] = k]
    /\ req' = [req EXCEPT ![q] = b]
    /\ after' = [after EXCEPT ![q] = Answered]
    /\ resp' = [resp EXCEPT ![q] = r]
    /\ pc' = [pc EXCEPT ![q] = IF r = NoResponse THEN "findOne" ELSE "done"]
    /\ UNCHANGED <<store, storeDown>>

Respond(q, r) ==
    /\ resp' = [resp EXCEPT ![q] = r]
    /\ pc' = [pc EXCEPT ![q] = "done"]
    /\ UNCHANGED <<kind, req, after>>

\* app.post('/api/login'): the check of the two fields
LoginReceive(q, b) ==
    /\ pc[q] = "idle"
    /\ Receive(q, "login", b,
               IF Falsy(b.username) \/ Falsy(b.password)
               THEN Message(400, "Username and password are required")
               ELSE NoResponse)
    /\ UNCHANGED cvars

\* app.post('/api/login'): await User.findOne and the answer
LoginFindOne(q) ==
    /\ pc[q] = "findOne"
    /\ kind[q] = "login"
    /\ UNCHANGED <<store, storeDown>>
    /\ UNCHANGED cvars
    /\ IF storeDown
       THEN Respond(q, LoginCatch)
       ELSE LET user == findOne(store, req[q].username)
            IN  IF user = Null
                THEN Respond(q, Message(404, "User not found"))
                ELSE IF PasswordMatches(user.password, req[q].password)
                THEN Respond(q, Json(200, user))
                ELSE Respond(q, Message(401, "Invalid credentials"))

\* app.post('/api/register'): the validation of the fields
RegisterReceive(q, b) ==
    /\ pc[q] = "idle"
    /\ Receive(q, "register", b, Validate(b))
    /\ UNCHANGED cvars

\* app.post('/api/register'): await User.findOne and the duplicate check
RegisterFindOne(q) ==
    /\ pc[q] = "findOne"
    /\ kind[q] = "register"
    /\ UNCHANGED <<store, storeDown>>
    /\ UNCHANGED cvars
    /\ IF storeDown
       THEN Respond(q, RegisterCatch)
       ELSE IF findOne(store, req[q].username) # Null
       THEN Respond(q, Message(400, "Username already taken"))
       ELSE /\ pc' = [pc EXCEPT ![q] = "save"]
            /\ UNCHANGED <<kind, req, resp, after>>

\* app.post('/api/register'): await newUser.save() and the 201
RegisterSave(q) ==
    /\ pc[q] = "save"
    /\ UNCHANGED storeDown
    /\ UNCHANGED cvars
    /\ IF storeDown
       THEN /\ Respond(q, RegisterCatch)
            /\ UNCHANGED store
       ELSE /\ store' = Insert(store, NewUser(req[q]))
            /\ Respond(q, Json(201, NewUser(req[q])))

\* The store (the connection to MongoDB) starts and stops failing.
StoreFail ==
    /\ ~storeDown
    /\ storeDown' = TRUE
    /\ UNCHANGED <<store, pc, kind, req, resp, after>>
    /\ UNCHANGED cvars

StoreRecover ==
    /\ storeDown
    /\ storeDown' = FALSE
    /\ UNCHANGED <<store, pc, kind, req, resp, after>>
    /\ UNCHANGED cvars

----------------------------------------------------------------------------
(* The client *)

\* Number of $http.post requests that may await their response at once.
MaxInflight == 2

Slots == 1 .. MaxInflight

NoRequest == [kind |-> "none"]

Paths == {"/", "/schedule", "/login", "/profile"}

InitClient ==
    /\ currentUser = Null
    /\ path = "/"
    /\ view = "none"
    /\ profile = Null
    /\ logoutFlag = FALSE
    /\ errorMessage = ""
    /\ inflight = [i \in Slots |-> NoRequest]
    /\ loggedOut = FALSE

\* $scope.isLoggedIn of MainController
isLoggedInAlways == TRUE

isLoggedIn == currentUser # Null

\* What the login form and the register form may hold when submitted.
LoginForms == [username : {Undefined, jdoe, al}, password : {Undefined, pw1}]

RegisterForms ==
    {ValidBody(jdoe, pw1), ValidBody(al, PW1),
     [ValidBody(al, pw1) EXCEPT !.email = Undefined]}

\* The messages of the error responses the client shows; NoData is a failed
\* request with no response body (error.data is null and the handler throws).
NoData == "<no data>"

LoginErrors == {"Invalid credentials", "User not found", NoData}

RegisterErrors == {"Username already taken", NoData}

\* The user object of a success response: the record the server holds for
\* the submitted fields.
ResponseData(r) ==
    IF r.kind = "login"
    THEN NewUser(ValidBody(r.body.username, r.body.password))
    ELSE NewUser(r.body)

\* $rootScope.currentUser.status = "Active Member"
WithStatus(u) ==
    [f \in DOMAIN u \cup {"status"} |->
        IF f = "status" THEN <<"Active Member">> ELSE u[f]]

FreeSlot(i) ==
    /\ inflight[i] = NoRequest
    /\ \A j \in Slots : j < i => inflight[j] # NoRequest

\* $http.post(url, body): the request is sent
Post(k, b) ==
    \E i \in Slots :
        /\ FreeSlot(i)
        /\ inflight' = [inflight EXCEPT ![i] =
                [kind |-> k, body |-> b, stale |-> FALSE, live |-> TRUE]]

\* A link of the page or the address bar changes the path.
Navigate(p) ==
    /\ p # path
    /\ path' = p
    /\ UNCHANGED <<currentUser, view, profile, logoutFlag, errorMessage,
                   inflight, loggedOut>>
    /\ UNCHANGED svars

\* The AuthController scopes of the requests in flight are destroyed.
ScopesDestroyed == [i \in Slots |->
    IF inflight[i] = NoRequest THEN NoRequest
    ELSE [inflight[i] EXCEPT !.live = FALSE]]

\* Routes "/" and "/schedule": the template, and ScheduleController with its
\* constant table of classes.
ShowPublicView ==
    /\ view # path
    /\ path \in {"/", "/schedule"}
    /\ view' = path
    /\ profile' = Null
    /\ errorMessage' = ""
    /\ inflight' = ScopesDestroyed
    /\ UNCHANGED <<currentUser, path, logoutFlag, loggedOut>>
    /\ UNCHANGED svars

\* Route "/login": AuthController starts, and the listener of
\* $watch('showLogin') runs in the first digest and clears the message.
AuthController ==
    /\ view # path
    /\ path = "/login"
    /\ view' = path
    /\ profile' = Null
    /\ errorMessage' = ""
    /\ logoutFlag' = FALSE
    /\ inflight' = ScopesDestroyed
    /\ UNCHANGED <<currentUser, path, loggedOut>>
    /\ UNCHANGED svars

\* Route "/profile": ProfileController
ProfileController ==
    /\ view # path
    /\ path = "/profile"
    /\ view' = path
    /\ errorMessage' = ""
    /\ inflight' = ScopesDestroyed
    /\ IF currentUser = Null
       THEN /\ logoutFlag' = TRUE
            /\ path' = "/login"
            /\ profile' = Null
            /\ UNCHANGED currentUser
       ELSE /\ currentUser' = WithStatus(currentUser)
            /\ profile' = currentUser'
            /\ UNCHANGED <<logoutFlag, path>>
    /\ UNCHANGED loggedOut
    /\ UNCHANGED svars

\* $scope.checkProfileAccess of MainController
checkProfileAccess ==
    /\ path' = IF isLoggedIn THEN "/profile" ELSE "/login"
    /\ UNCHANGED <<currentUser, view, profile, logoutFlag, errorMessage,
                   inflight, loggedOut>>
    /\ UNCHANGED svars

\* $scope.logout of MainController
logout ==
    /\ currentUser' = Null
    /\ path' = "/"
    /\ loggedOut' = TRUE
    /\ inflight' = [i \in Slots |->
            IF inflight[i] = NoRequest THEN NoRequest
            ELSE [inflight[i] EXCEPT !.stale = TRUE]]
    /\ UNCHANGED <<view, profile, logoutFlag, errorMessage>>
    /\ UNCHANGED svars

\* $scope.login of AuthController
login(f) ==
    /\ view = "/login"
    /\ IF Falsy(f.username) \/ Falsy(f.password)
       THEN /\ errorMessage' = "Please enter username and password."
            /\ UNCHANGED inflight
       ELSE /\ Post("login", f)
            /\ UNCHANGED errorMessage
    /\ UNCHANGED <<currentUser, path, view, profile, logoutFlag, loggedOut>>
    /\ UNCHANGED svars

\* $scope.register of AuthController
register(f) ==
    /\ view = "/login"
    /\ IF \/ Falsy(f.username) \/ Falsy(f.password) \/ Falsy(f.firstName)
          \/ Falsy(f.lastName) \/ Falsy(f.email) \/ Falsy(f.phone)
       THEN /\ errorMessage' = "Please fill in all fields."
            /\ UNCHANGED inflight
       ELSE /\ Post("register", f)
            /\ UNCHANGED errorMessage
    /\ UNCHANGED <<currentUser, path, view, profile, logoutFlag, loggedOut>>
    /\ UNCHANGED svars

\* .then(function(response) {...}) of login and of register
Success(i, k) ==
    /\ inflight[i] # NoRequest
    /\ inflight[i].kind = k
    /\ currentUser' = ResponseData(inflight[i])
    /\ path' = "/profile"
    /\ loggedOut' = IF inflight[i].stale THEN loggedOut ELSE FALSE
    /\ inflight' = [inflight EXCEPT ![i] = NoRequest]
    /\ UNCHANGED <<view, profile, logoutFlag, errorMessage>>

loginSuccess(i) == Success(i, "login") /\ UNCHANGED svars

registerSuccess(i) == Success(i, "register") /\ UNCHANGED svars

\* .catch(function(error) {...}) of login and of register
Failure(i, k, m) ==
    /\ inflight[i] # NoRequest
    /\ inflight[i].kind = k
    /\ errorMessage' = IF inflight[i].live /\ m # NoData
                       THEN m ELSE errorMessage
    /\ inflight' = [inflight EXCEPT ![i] = NoRequest]
    /\ UNCHANGED <<currentUser, path, view, profile, logoutFlag, loggedOut>>

loginError(i, m) == Failure(i, "login", m) /\ UNCHANGED svars

registerError(i, m) == Failure(i, "register", m) /\ UNCHANGED svars

----------------------------------------------------------------------------
(* Specifications *)

Init == InitServer /\ InitClient

\* The server under any requests, in any interleaving of their steps.
Next ==
    \/ \E q \in Reqs : \E b \in LoginBodies : LoginReceive(q, b)
    \/ \E q \in Reqs : LoginFindOne(q)
    \/ \E q \in Reqs : \E b \in RegisterBodies : RegisterReceive(q, b)
    \/ \E q \in Reqs : RegisterFindOne(q)
    \/ \E q \in Reqs : RegisterSave(q)
    \/ StoreFail
    \/ StoreRecover

Spec == Init /\ [][Next]_vars

\* One register request with any fields, to a store that is empty or holds
\* the record of jdoe.
InitRegister ==
    /\ InitClient
    /\ store \in {<<>>, <<NewUser(ValidBody(jdoe, pw1))>>}
    /\ storeDown = FALSE
    /\ pc = [q \in Reqs |-> "idle"]
    /\ kind = [q \in Reqs |-> "none"]
    /\ req = [q \in Reqs |-> NoBody]
    /\ resp = [q \in Reqs |-> NoResponse]
    /\ after = [q \in Reqs |-> {}]

NextRegister ==
    \/ \E b \in AllRegisterBodies : RegisterReceive(1, b)
    \/ RegisterFindOne(1)
    \/ RegisterSave(1)
    \/ StoreFail
    \/ StoreRecover

SpecRegister == InitRegister /\ [][NextRegister]_vars

\* The client: the user's actions, the route changes and the responses.
NextClient ==
    \/ \E p \in Paths : Navigate(p)
    \/ ShowPublicView
    \/ AuthController
    \/ ProfileController
    \/ checkProfileAccess
    \/ logout
    \/ \E f \in LoginForms : login(f)
    \/ \E f \in RegisterForms : register(f)
    \/ \E i \in Slots : loginSuccess(i)
    \/ \E i \in Slots : registerSuccess(i)
    \/ \E i \in Slots : \E m \in LoginErrors : loginError(i, m)
    \/ \E i \in Slots : \E m \in RegisterErrors : registerError(i, m)

SpecClient == Init /\ [][NextClient]_vars

----------------------------------------------------------------------------
(* Properties *)

SixFields ==
    {"firstName", "lastName", "username", "password", "email", "phone"}

\* The six fields of a request, as they were sent
FieldsOf(b) == [f \in SixFields |-> b[f]]

\* The checks of register in the order of the interface: presence, then
\* format, of firstName, lastName, email and phone, then the presence of
\* username and password.
CheckFails(n, b) ==
    CASE n = 1 -> Falsy(b.firstName)
      [] n = 2 -> ~fnameRegex(b.firstName)
      [] n = 3 -> Falsy(b.lastName)
      [] n = 4 -> ~lnameRegex(b.lastName)
      [] n = 5 -> Falsy(b.email)
      [] n = 6 -> ~emailRegex(b.email)
      [] n = 7 -> Falsy(b.phone)
      [] n = 8 -> ~phoneNumberRegex(b.phone)
      [] n = 9 -> Falsy(b.username) \/ Falsy(b.password)

CheckMessage(n) ==
    CASE n = 1 -> "First name is required"
      [] n = 2 -> "First Name should contain only letters"
      [] n = 3 -> "Last Name is required"
      [] n = 4 -> "Last Name should contain only letters"
      [] n = 5 -> "Email is required"
      [] n = 6 -> "Email format is invalid"
      [] n = 7 -> "Phone Number is required"
      [] n = 8 -> "Phone Number must be 10 digits"
      [] n = 9 -> "Username and password are required"

FailingChecks(b) == {n \in 1 .. 9 : CheckFails(n, b)}

FirstFailing(b) ==
    CHOOSE n \in FailingChecks(b) : \A m \in FailingChecks(b) : n <= m

\* Request q arrives, is answered, in this step.
Arrives(q) == pc[q] = "idle" /\ pc'[q] # "idle"

Completes(q) == pc[q] # "done" /\ pc'[q] = "done"

RecordsOf(username) == {i \in 1 .. Len(store) : store[i].username = username}

\* C1: no two records of the store have the same username, in any
\* interleaving of the lookups and the inserts of the register requests.
C1_UniqueUsernames ==
    \A i, j \in 1 .. Len(store) :
        store[i].username = store[j].username => i = j

\* C2: a login that arrives after a register was answered 201, with the
\* username and the password of that register, and meets no store failure,
\* is answered 200 with the six fields that were registered.  (A register
\* answered 201 found no record of its username, so none was there when it
\* arrived.)
C2_LoginAfterRegister ==
    \A p, q \in Reqs :
        ( /\ kind[p] = "register" /\ pc[p] = "done" /\ resp[p].status = 201
          /\ kind[q] = "login" /\ pc[q] = "done" /\ p \in after[q]
          /\ req[q].username = req[p].username
          /\ req[q].password = req[p].password
          /\ resp[q].status # 500 )
        => /\ resp[q].status = 200
           /\ resp[q].body = FieldsOf(req[p])

\* p and q are register requests of one username with valid fields, p was
\* answered 201 before q arrived, and no other register request of that
\* username overlapped p.
SequentialPair(p, q) ==
    /\ p # q
    /\ kind[p] = "register" /\ kind[q] = "register"
    /\ p \in after[q]
    /\ resp[p].status = 201
    /\ req[q].username = req[p].username
    /\ \A r \in Reqs \ {p} :
          (kind[r] = "register" /\ req[r].username = req[p].username)
          => p \in after[r]
    /\ FailingChecks(req[q]) = {}

OneRecordOf(p) ==
    /\ Cardinality(RecordsOf(req[p].username)) = 1
    /\ \A i \in RecordsOf(req[p].username) : store[i] = FieldsOf(req[p])

C3_Rejected(p, q) ==
    (SequentialPair(p, q) /\ pc[q] = "done")
    => /\ resp[q].status \in {400, 500}
       /\ OneRecordOf(p)

C4_FirstFailureWins ==
    [][\A q \in Reqs :
          /\ (Arrives(q) /\ kind'[q] = "register")
             => IF FailingChecks(req'[q]) = {}
                THEN pc'[q] = "findOne" /\ resp'[q] = NoResponse
                ELSE /\ pc'[q] = "done"
                     /\ resp'[q] =
                           Message(400, CheckMessage(FirstFailing(req'[q])))
          /\ (kind[q] = "register" /\ pc[q] \in {"findOne", "save"})
             => FailingChecks(req[q]) = {}
          /\ resp'[q] = Message(400, "Username already taken")
             => FailingChecks(req'[q]) = {}]_vars

C4_Witness ==
    \E q \in Reqs :
        /\ kind[q] = "register" /\ pc[q] = "done"
        /\ req[q].firstName = <<"J","4">>
        /\ req[q].lastName = <<"D","2">>
        /\ req[q].phone = Undefined
        /\ RecordsOf(req[q].username) # {}
        /\ resp[q] = Message(400, "First Name should contain only letters")

\* C5: login answers 400 when username or password is absent, whatever the
\* store holds; otherwise, when the store does not fail, 404 when no record
\* has the username, else 401 or 200: 200 only with a record that has
\* exactly the username and the password supplied, which is the body, and
\* 401 only when a record of the username has another password.
C5_LoginOutcomes ==
    [][\A q \in Reqs :
          /\ (Arrives(q) /\ kind'[q] = "login")
             => IF Falsy(req'[q].username) \/ Falsy(req'[q].password)
                THEN pc'[q] = "done" /\ resp'[q].status = 400
                ELSE pc'[q] = "findOne" /\ resp'[q] = NoResponse
          /\ (kind[q] = "login" /\ pc[q] = "findOne" /\ Completes(q)
                /\ ~storeDown)
             => /\ resp'[q].status \in {404, 401, 200}
                /\ resp'[q].status = 404 <=> RecordsOf(req[q].username) = {}
                /\ resp'[q].status = 200
                   => \E i \in RecordsOf(req[q].username) :
                         /\ store[i].password = req[q].password
                         /\ resp'[q].body = store[i]
                /\ resp'[q].status = 401
                   => \E i \in RecordsOf(req[q].username) :
                         store[i].password # req[q].password]_vars

C5_Witness ==
    \E q \in Reqs :
        /\ kind[q] = "login" /\ pc[q] = "done"
        /\ resp[q].status = 401
        /\ req[q].password = PW1
        /\ \E i \in RecordsOf(req[q].username) : store[i].password = pw1

\* C6: a register request that is answered 201 adds one record, the six
\* fields of the request as sent, which is also the body; one answered 400
\* or 500 leaves the store as it is; and the store changes in no other step.
C6_RegisterFrame ==
    [][/\ \A q \in Reqs :
             (kind'[q] = "register" /\ Completes(q))
             => IF resp'[q].status = 201
                THEN /\ store' = Append(store, FieldsOf(req[q]))
                     /\ resp'[q].body = FieldsOf(req[q])
                ELSE /\ resp'[q].status \in {400, 500}
                     /\ store' = store
       /\ store' # store
          => \E q \in Reqs :
                /\ kind[q] = "register" /\ Completes(q)
                /\ resp'[q].status = 201]_vars

C6_Witness ==
    /\ Len(store) = 1
    /\ \E p, q, r \in Reqs :
          /\ kind[p] = "register" /\ resp[p].status = 201
          /\ kind[q] = "register" /\ resp[q].status = 400
          /\ kind[r] = "register" /\ resp[r].status = 500

\* C7: a record of the store stays in it, at its place and with its field
\* values, in every step; and a step of a login request, whatever its
\* outcome, leaves the whole store unchanged.
C7_RecordsNeverChange ==
    [][/\ Len(store') >= Len(store)
       /\ \A i \in 1 .. Len(store) : store'[i] = store[i]
       /\ \A q \in Reqs :
             (kind'[q] = "login" /\ pc'[q] # pc[q]) => store' = store]_vars

C7_Witness ==
    /\ Len(store) >= 2
    /\ \E q \in Reqs : kind[q] = "login" /\ resp[q].status = 200

\* C8: when the store fails at a lookup or an insert, login answers 500
\* "Server error" and register 500 "Error saving user to database", and the
\* store is unchanged; a request that fails its validation is answered 400
\* also while the store fails.
C8_StoreFailure ==
    [][\A q \in Reqs :
          /\ (storeDown /\ pc[q] \in {"findOne", "save"} /\ pc'[q] # pc[q])
             => /\ pc'[q] = "done"
                /\ store' = store
                /\ resp'[q] =
                      IF kind[q] = "login"
                      THEN Message(500, "Server error")
                      ELSE Message(500, "Error saving user to database")
          /\ (storeDown /\ Arrives(q) /\ kind'[q] = "register"
                /\ FailingChecks(req'[q]) # {})
             => pc'[q] = "done" /\ resp'[q].status = 400
          /\ (storeDown /\ Arrives(q) /\ kind'[q] = "login"
                /\ (Falsy(req'[q].username) \/ Falsy(req'[q].password)))
             => pc'[q] = "done" /\ resp'[q].status = 400]_vars

C8_Witness ==
    /\ storeDown
    /\ \E p, q, r \in Reqs :
          /\ kind[p] = "login" /\ resp[p] = Message(500, "Server error")
          /\ kind[q] = "register"
          /\ resp[q] = Message(500, "Error saving user to database")
          /\ kind[r] = "register"
          /\ resp[r].status = 400
          /\ FailingChecks(req[r]) # {}

\* C9: checkProfileAccess routes to /profile when currentUser is not null
\* and to /login otherwise; ProfileController, started with currentUser
\* null, routes to /login and sets no profile; logout sets currentUser to
\* null; and the profile is set only in a step that starts with currentUser
\* not null, to that user.
C9_ProfileOnlyWhenLoggedIn ==
    [][/\ checkProfileAccess
          => path' = IF currentUser # Null THEN "/profile" ELSE "/login"
       /\ (ProfileController /\ currentUser = Null)
          => /\ path' = "/login"
             /\ profile' = Null
             /\ currentUser' = Null
       /\ logout => currentUser' = Null
       /\ (profile' # Null /\ profile' # profile)
          => /\ currentUser # Null
             /\ profile' = currentUser'
             /\ \A f \in DOMAIN currentUser : profile'[f] = currentUser[f]
       ]_vars

C9_Witness ==
    /\ currentUser = Null
    /\ view = "/profile"
    /\ path = "/login"
    /\ logoutFlag
    /\ profile = Null
    /\ loggedOut

\* C10: once logout has run, currentUser is null until a login or register
\* request sent after that logout succeeds.
C10_LoggedOutStaysLoggedOut == loggedOut => currentUser = Null

=============================================================================
